---- MODULE Spec2Model ----
(***************************************************************************)
(* EMnet Splicer (splicer.py): a SAME/EAS "ZCZC" header is parsed, the     *)
(* alert's end time is derived, and an ordered list of audio segments is   *)
(* assembled and exported.  Strings are sequences of characters; a         *)
(* character is a one-character string ("U+00E9" and "U+0663" stand for    *)
(* the non-ASCII letter e-acute and the Arabic-Indic digit three).         *)
(***************************************************************************)
EXTENDS Integers, Sequences, FiniteSets, TLC

VARIABLES
    \* ---- one invocation of main()/splice() ----
    entry,              \* "main": through the command line; "splice": direct call
    zczc_code,          \* the header argument
    use_local_time,     \* splice() parameter / --local-time
    include_tones,      \* splice() parameter / --include-tones
    tz_override,        \* splice() parameter / --tz-override, None when not given
    absent,             \* files for which os.path.exists() is False
    local_offset,       \* minutes east of UTC of the operating system's timezone
    pc,                 \* position in main()/splice()
    audio_segments,     \* the list of segments built so far
    zczc_split,         \* the groups returned by split_zczc
    location_code_list, \* location_codes.split('-')
    index,              \* loop index over location_code_list (1-based)
    times,              \* end_hour, end_minute and the three TIMES file names
    error,              \* the exception raised, None if none
    exported,           \* the list handed to export(), None before
    \* ---- generate_tones and its function-attribute cache ----
    cache,              \* generate_tones._segment_cache, None before the first build
    tpc,                \* per caller: position in generate_tones
    targ,               \* per caller: the zczc_string argument
    tlocal,             \* per caller: the local variable `cache`
    tresult,            \* per caller: the value returned or the exception raised
    calls,              \* per caller: number of calls made
    builds              \* number of times the lookup table was constructed

vars == <<entry, zczc_code, use_local_time, include_tones, tz_override, absent,
          local_offset, pc, audio_segments, zczc_split, location_code_list,
          index, times, error, exported, cache, tpc, targ, tlocal, tresult,
          calls, builds>>

splice_vars == <<entry, zczc_code, use_local_time, include_tones, tz_override,
                 absent, local_offset, pc, audio_segments, zczc_split,
                 location_code_list, index, times, error, exported>>

tone_vars == <<tpc, targ, tlocal, tresult, calls, builds>>

None == "None"

\* ------------------------------------------------------------------------
\* Characters
\* ------------------------------------------------------------------------
UpperSeq == <<"A","B","C","D","E","F","G","H","I","J","K","L","M",
              "N","O","P","Q","R","S","T","U","V","W","X","Y","Z">>

LowerSeq == <<"a","b","c","d","e","f","g","h","i","j","k","l","m",
              "n","o","p","q","r","s","t","u","v","w","x","y","z">>

DigitSeq == <<"0","1","2","3","4","5","6","7","8","9">>

Range(s) == {s[i] : i \in 1..Len(s)}

IndexOf(s, c) == CHOOSE i \in 1..Len(s) : s[i] = c

Upper == Range(UpperSeq)

Lower == Range(LowerSeq)

AsciiDigit == Range(DigitSeq)

\* Python's \d on a str pattern matches every Unicode decimal digit
UnicodeDigit == AsciiDigit \cup {"U+0663"}

\* characters removed by str.strip()
Whitespace == {" ", "\t", "\n", "\r"}

\* the class [A-Za-z0-9\/ ]
StationChar == Upper \cup Lower \cup AsciiDigit \cup {"/", " "}

\* ord(c)
Ord(c) ==
    CASE c \in Upper      -> 64 + IndexOf(UpperSeq, c)
      [] c \in Lower      -> 96 + IndexOf(LowerSeq, c)
      [] c \in AsciiDigit -> 47 + IndexOf(DigitSeq, c)
      [] c = " "          -> 32
      [] c = "\t"         -> 9
      [] c = "\n"         -> 10
      [] c = "\r"         -> 13
      [] c = "+"          -> 43
      [] c = "-"          -> 45
      [] c = "/"          -> 47
      [] c = "U+00E9"     -> 233
      [] c = "U+0663"     -> 1635

\* the value int() gives a decimal digit
DigitVal(c) == IF c = "U+0663" THEN 3 ELSE IndexOf(DigitSeq, c) - 1

\* int(s) for a string of decimal digits
RECURSIVE int(_)
int(s) == IF Len(s) = 0 THEN 0
          ELSE 10 * int(SubSeq(s, 1, Len(s) - 1)) + DigitVal(s[Len(s)])

\* str(n) for n >= 0
RECURSIVE str(_)
str(n) == IF n < 10 THEN <<DigitSeq[n + 1]>>
          ELSE str(n \div 10) \o <<DigitSeq[(n % 10) + 1]>>

\* f"{n:02d}"
Fmt02d(n) == IF n < 10 THEN <<"0">> \o str(n) ELSE str(n)

\* s.strip()
RECURSIVE lstrip(_)
lstrip(s) == IF Len(s) > 0 /\ s[1] \in Whitespace THEN lstrip(Tail(s)) ELSE s

RECURSIVE rstrip(_)
rstrip(s) == IF Len(s) > 0 /\ s[Len(s)] \in Whitespace
             THEN rstrip(SubSeq(s, 1, Len(s) - 1)) ELSE s

strip(s) == rstrip(lstrip(s))

\* s.split('-')
RECURSIVE split(_)
split(s) ==
    IF \A i \in 1..Len(s) : s[i] # "-" THEN <<s>>
    ELSE LET i == CHOOSE k \in 1..Len(s) :
                      s[k] = "-" /\ \A j \in 1..(k - 1) : s[j] # "-"
         IN  <<SubSeq(s, 1, i - 1)>> \o split(SubSeq(s, i + 1, Len(s)))

AllIn(s, from, to, class) ==
    /\ to <= Len(s)
    /\ \A i \in from..to : s[i] \in class

\* ------------------------------------------------------------------------
\* split_zczc: the regular expression
\*   ^ZCZC-([A-Z]{3})-([A-Z]{3})-((?:\d{6}(?:-?)){1,31})\+(\d{4})-(\d{7})
\*    -([A-Za-z0-9\/ ]{0,8})-?$
\* ------------------------------------------------------------------------
MaxLocationCodes == 31

CodeWidth == 6

MaxStationLen == 8

\* number of repetitions of \d{6}-? that make up g exactly, -1 if g is not
\* such a repetition (0 for the empty string)
RECURSIVE CountUnits(_)
CountUnits(g) ==
    IF Len(g) = 0 THEN 0
    ELSE IF ~AllIn(g, 1, CodeWidth, UnicodeDigit) THEN -1
    ELSE LET rest == SubSeq(g, CodeWidth + 1, Len(g))
             after == IF Len(rest) > 0 /\ rest[1] = "-" THEN Tail(rest) ELSE rest
             n == CountUnits(after)
         IN  IF n < 0 THEN -1 ELSE n + 1

\* the pattern without the final $: t must match to its very end
MatchCore(t) ==
    /\ Len(t) >= 13
    /\ SubSeq(t, 1, 5) = <<"Z","C","Z","C","-">>
    /\ AllIn(t, 6, 8, Upper)
    /\ t[9] = "-"
    /\ AllIn(t, 10, 12, Upper)
    /\ t[13] = "-"
    /\ \E p \in 14..Len(t) :
          /\ t[p] = "+"
          /\ \A j \in 14..(p - 1) : t[j] # "+"
          /\ CountUnits(SubSeq(t, 14, p - 1)) \in 1..MaxLocationCodes
          /\ AllIn(t, p + 1, p + 4, UnicodeDigit)
          /\ Len(t) >= p + 13
          /\ t[p + 5] = "-"
          /\ AllIn(t, p + 6, p + 12, UnicodeDigit)
          /\ t[p + 13] = "-"
          /\ LET rest == SubSeq(t, p + 14, Len(t))
                 station == IF Len(rest) > 0 /\ rest[Len(rest)] = "-"
                            THEN SubSeq(rest, 1, Len(rest) - 1) ELSE rest
             IN  /\ Len(station) <= MaxStationLen
                 /\ AllIn(station, 1, Len(station), StationChar)

\* $ matches at the end of the string and also just before a final newline
MatchedText(s) ==
    IF MatchCore(s) THEN s
    ELSE IF Len(s) > 0 /\ s[Len(s)] = "\n" /\ MatchCore(SubSeq(s, 1, Len(s) - 1))
    THEN SubSeq(s, 1, Len(s) - 1)
    ELSE <<>>

Matches(s) == MatchedText(s) # <<>>

\* match.groups(); only evaluated when Matches(s)
Groups(s) ==
    LET t == MatchedText(s)
        p == CHOOSE k \in 14..Len(t) : t[k] = "+"
        rest == SubSeq(t, p + 14, Len(t))
    IN  [originator     |-> SubSeq(t, 6, 8),
         event          |-> SubSeq(t, 10, 12),
         location_codes |-> SubSeq(t, 14, p - 1),
         duration       |-> SubSeq(t, p + 1, p + 4),
         datetime_group |-> SubSeq(t, p + 6, p + 12),
         station_id     |-> IF Len(rest) > 0 /\ rest[Len(rest)] = "-"
                            THEN SubSeq(rest, 1, Len(rest) - 1) ELSE rest]

split_zczc(s) ==
    IF Matches(s) THEN [ok |-> TRUE, groups |-> Groups(s)]
    ELSE [ok |-> FALSE, groups |-> None]

\* ------------------------------------------------------------------------
\* generate_tones
\* ------------------------------------------------------------------------
\* samples of one bit: int(44100 * (1000.0 / 520.8333333333334) / 1000.0)
BitDurationSamples == 84

\* samples of AudioSegment.silent(duration=1000, frame_rate=44100)
GapSamples == 44100

PreambleByte == 171

PreambleLen == 16

Bursts == 3

ByteValues == 256

NoFile == [dir |-> "", base |-> "", code |-> <<>>]

NoError == [kind |-> "None", file |-> NoFile]

Error(kind) == [kind |-> kind, file |-> NoFile]

NoCache == [sample_width |-> 0, frame_rate |-> 0, channels |-> 0,
            byte_lookup |-> <<>>, gap_raw |-> <<>>]

\* (value >> bit_index) & 1
Bit(value, bit_index) == (value \div (2 ^ bit_index)) % 2

\* the eight bit chunks of one byte value, bit_index 0 first
ByteChunk(value) ==
    [k \in 1..8 |-> IF Bit(value, k - 1) = 1 THEN "mark" ELSE "space"]

\* the dictionary built when the cache is empty; byte_lookup[value + 1] is
\* the tuple's entry for value
BuildCache ==
    [sample_width |-> 2, frame_rate |-> 44100, channels |-> 1,
     byte_lookup  |-> [i \in 1..ByteValues |-> ByteChunk(i - 1)],
     gap_raw      |-> <<"gap">>]

\* the checks that precede synthesis; header_text.encode("ascii") fails on
\* any character above 127
ValidTonePayload(zczc_string) ==
    /\ Len(zczc_string) > 0
    /\ Len(strip(zczc_string)) > 0
    /\ \A i \in 1..Len(strip(zczc_string)) : Ord(strip(zczc_string)[i]) < 128

header_bytes(zczc_string) ==
    [i \in 1..Len(strip(zczc_string)) |-> Ord(strip(zczc_string)[i])]

preamble == [i \in 1..PreambleLen |-> PreambleByte]

burst_bytes(zczc_string) == preamble \o header_bytes(zczc_string) \o <<13>>

\* for value in burst_bytes: raw_audio.extend(byte_lookup[value])
RenderBytes(bytes, byte_lookup) ==
    [i \in 1..(8 * Len(bytes)) |->
        byte_lookup[bytes[((i - 1) \div 8) + 1] + 1][((i - 1) % 8) + 1]]

RECURSIVE RenderBursts_GapAfterEach(_, _, _)
RenderBursts_GapAfterEach(burst_index, bytes, c) ==
    IF burst_index >= Bursts THEN <<>>
    ELSE RenderBytes(bytes, c.byte_lookup) \o c.gap_raw
         \o RenderBursts_GapAfterEach(burst_index + 1, bytes, c)

\* for burst_index in range(3): the bytes, then the gap unless it is the last
RECURSIVE RenderBursts(_, _, _)
RenderBursts(burst_index, bytes, c) ==
    IF burst_index >= Bursts THEN <<>>
    ELSE RenderBytes(bytes, c.byte_lookup)
         \o (IF burst_index < Bursts - 1 THEN c.gap_raw ELSE <<>>)
         \o RenderBursts(burst_index + 1, bytes, c)

\* raw_audio, a sequence of bit-long "mark"/"space" chunks and 1000 ms "gap"s
raw_audio(zczc_string, c) == RenderBursts(0, burst_bytes(zczc_string), c)

SampleCount(audio) ==
    LET gaps == Cardinality({i \in 1..Len(audio) : audio[i] = "gap"})
    IN  gaps * GapSamples + (Len(audio) - gaps) * BitDurationSamples

NoResult == [status |-> "none", raw_audio |-> <<>>]

\* one whole, uninterrupted call with the cache in state c
generate_tones(zczc_string, c) ==
    IF ~ValidTonePayload(zczc_string)
    THEN [ok |-> FALSE, cache |-> c, raw_audio |-> <<>>]
    ELSE LET c2 == IF c = NoCache THEN BuildCache ELSE c
         IN  [ok |-> TRUE, cache |-> c2, raw_audio |-> raw_audio(zczc_string, c2)]

\* ------------------------------------------------------------------------
\* splice: segments, files and the end time
\* ------------------------------------------------------------------------
\* os.path.join(dir, f"{base}{code}.wav")
File(dir, base, code) == [dir |-> dir, base |-> base, code |-> code]

\* AudioSegment.from_wav(file)
Wav(file) == [src |-> "wav", ms |-> 0, file |-> file, payload |-> <<>>]

\* AudioSegment.silent(duration=ms)
Silence(ms) == [src |-> "silence", ms |-> ms, file |-> NoFile, payload |-> <<>>]

\* generate_tones(payload)
Tones(payload) == [src |-> "tones", ms |-> 0, file |-> NoFile, payload |-> payload]

\* the 853 Hz + 960 Hz overlay of 8000 ms
AttentionSignal == [src |-> "attention", ms |-> 8000, file |-> NoFile, payload |-> <<>>]

exists_TimesUnchecked(file) == file.dir = "TIMES" \/ file \notin absent

\* os.path.exists(file)
exists(file) == file \notin absent

event_file(groups) == File("EVENTS", "", groups.event)

and_file == File("OTHER", "and", <<>>)

location_file(location_code) == File("LOC", "", location_code)

until_file == File("OTHER", "until", <<>>)

tz_offsets ==
    [UTC |-> 0, EST |-> -5, EDT |-> -4, CST |-> -6, CDT |-> -5,
     MST |-> -7, MDT |-> -6, PST |-> -8, PDT |-> -7]

issue_hour(groups) == int(SubSeq(SubSeq(groups.datetime_group, 4, 7), 1, 2))

issue_minute(groups) == int(SubSeq(SubSeq(groups.datetime_group, 4, 7), 3, 4))

duration_hours(groups) == int(SubSeq(groups.duration, 1, 2))

duration_minutes(groups) == int(SubSeq(groups.duration, 3, 4))

utc_end_hour_NoWrap(ih, im, dh, dm) == ih + dh + ((im + dm) \div 60)

\* the default end time
utc_end_hour(ih, im, dh, dm) == (ih + dh + ((im + dm) \div 60)) % 24

utc_end_minute(ih, im, dh, dm) == (im + dm) % 60

\* datetime.now(timezone.utc).replace(hour=ih, minute=im, ...) raises
\* ValueError unless 0 <= ih <= 23 and 0 <= im <= 59
ReplaceOk(ih, im) == ih \in 0..23 /\ im \in 0..59

\* minute of the day of (issue instant moved to a zone `offset` minutes east
\* of UTC) + timedelta(hours=dh, minutes=dm)
ShiftedEnd(ih, im, dh, dm, offset) ==
    (ih * 60 + im + offset + dh * 60 + dm) % 1440

\* end_hour and end_minute, or the exception raised while computing them
ResolveEndTime(groups, local, tz, os_offset) ==
    LET ih == issue_hour(groups)
        im == issue_minute(groups)
        dh == duration_hours(groups)
        dm == duration_minutes(groups)
    IN  IF local
        THEN IF ReplaceOk(ih, im)
             THEN [error |-> "None",
                   end_hour   |-> ShiftedEnd(ih, im, dh, dm, os_offset) \div 60,
                   end_minute |-> ShiftedEnd(ih, im, dh, dm, os_offset) % 60]
             ELSE [error |-> "OutOfRange", end_hour |-> 0, end_minute |-> 0]
        ELSE IF tz # None
        THEN IF tz \notin DOMAIN tz_offsets
             THEN [error |-> "UnknownTimezone", end_hour |-> 0, end_minute |-> 0]
             ELSE IF ReplaceOk(ih, im)
             THEN [error |-> "None",
                   end_hour   |-> ShiftedEnd(ih, im, dh, dm, tz_offsets[tz] * 60) \div 60,
                   end_minute |-> ShiftedEnd(ih, im, dh, dm, tz_offsets[tz] * 60) % 60]
             ELSE [error |-> "OutOfRange", end_hour |-> 0, end_minute |-> 0]
        ELSE [error |-> "None",
              end_hour   |-> utc_end_hour(ih, im, dh, dm),
              end_minute |-> utc_end_minute(ih, im, dh, dm)]

hour_file(end_hour) ==
    IF end_hour = 0 THEN File("TIMES", "hour", <<"1", "2">>)
    ELSE IF end_hour < 12 THEN File("TIMES", "hour", Fmt02d(end_hour))
    ELSE IF end_hour = 12 THEN File("TIMES", "hour", <<"1", "2">>)
    ELSE File("TIMES", "hour", Fmt02d(end_hour - 12))

ampm_file(end_hour) ==
    IF end_hour = 0 THEN File("TIMES", "am", <<>>)
    ELSE IF end_hour < 12 THEN File("TIMES", "am", <<>>)
    ELSE IF end_hour = 12 THEN File("TIMES", "pm", <<>>)
    ELSE File("TIMES", "pm", <<>>)

minute_file(end_minute) == File("TIMES", "minute", Fmt02d(end_minute))

NoSplit == [originator |-> <<>>, event |-> <<>>, location_codes |-> <<>>,
            duration |-> <<>>, datetime_group |-> <<>>, station_id |-> <<>>]

NoTimes == [end_hour |-> -1, end_minute |-> -1, hour_file |-> NoFile,
            minute_file |-> NoFile, ampm_file |-> NoFile]

NotExported == [done |-> FALSE, audio |-> <<>>]

\* ------------------------------------------------------------------------
\* Inputs of one invocation
\* ------------------------------------------------------------------------
\* headers carry 1..MaxLocs location codes, and exactly 31 and 32
MaxLocs == 3

Codes == << <<"0","0","6","1","0","1">>, <<"0","0","6","1","0","3">>,
            <<"0","0","6","1","0","5">> >>

\* n codes, code i followed by a hyphen iff hyphen[i]
RECURSIVE JoinCodes(_, _)
JoinCodes(n, hyphen) ==
    IF n = 0 THEN <<>>
    ELSE JoinCodes(n - 1, hyphen) \o Codes[((n - 1) % Len(Codes)) + 1]
         \o (IF hyphen[n] THEN <<"-">> ELSE <<>>)

Hyphenated(n) == JoinCodes(n, [i \in 1..n |-> i < n])

Header(originator, event, location_codes, duration, datetime_group, tail) ==
    <<"Z","C","Z","C","-">> \o originator \o <<"-">> \o event \o <<"-">>
    \o location_codes \o <<"+">> \o duration \o <<"-">> \o datetime_group
    \o <<"-">> \o tail

EAS == <<"E","A","S">>

RWT == <<"R","W","T">>

KEAS == <<"K","E","A","S","/","T","V","-">>

BaseDuration == <<"0","1","3","0">>

BaseDateTime == <<"0","0","1","1","2","0","0">>

BaseHeader(location_codes) ==
    Header(EAS, RWT, location_codes, BaseDuration, BaseDateTime, KEAS)

WellFormedGroups ==
    {JoinCodes(n, h) : <<n, h>> \in
        UNION {{<<m, f>> : f \in [1..m -> BOOLEAN]} : m \in 1..MaxLocs}}
    \cup {Hyphenated(MaxLocationCodes),
          SubSeq(Codes[1], 1, 5) \o <<"U+0663">>}

MalformedGroups ==
    {<<>>, SubSeq(Codes[1], 1, 5), Codes[1] \o <<"7">>,
     <<"-">> \o Codes[1], Codes[1] \o <<"-", "-">>,
     Hyphenated(MaxLocationCodes + 1)}

GrammarHeaders ==
    {BaseHeader(g) : g \in WellFormedGroups \cup MalformedGroups}
    \cup {<<>>, <<" ">>, <<"N","N","N","N">>,
          <<" ">> \o BaseHeader(Codes[1]),
          BaseHeader(Codes[1]) \o <<" ">>,
          BaseHeader(Codes[1]) \o <<"\n">>,
          BaseHeader(Codes[1]) \o <<"-">>,
          Header(<<"e","a","s">>, RWT, Codes[1], BaseDuration, BaseDateTime, KEAS),
          Header(EAS, <<"r","w","t">>, Codes[1], BaseDuration, BaseDateTime, KEAS),
          Header(EAS, RWT, Codes[1], BaseDuration, BaseDateTime, <<>>),
          Header(EAS, RWT, Codes[1], BaseDuration, BaseDateTime, <<"K","E","A","S"," ">>),
          Header(EAS, RWT, Codes[1], BaseDuration, BaseDateTime, <<"K","U+00E9">>),
          Header(EAS, RWT, Codes[1], BaseDuration, BaseDateTime,
                 <<"K","E","A","S","/","T","V","0","1">>),
          Header(EAS, RWT, Codes[1], SubSeq(BaseDuration, 1, 3), BaseDateTime, KEAS)}

HourDigits == {<<"0","0">>, <<"0","1">>, <<"1","1">>, <<"1","2">>, <<"2","3">>,
               <<"2","4">>, <<"9","9">>}

MinuteDigits == {<<"0","0">>, <<"1","5">>, <<"4","5">>, <<"5","9">>, <<"6","0">>,
                 <<"9","9">>}

Durations == {<<"0","0","0","0">>, <<"0","0","3","0">>, <<"0","1","3","0">>,
              <<"1","2","1","5">>, <<"9","9","9","9">>}

TimeHeaders ==
    {Header(EAS, RWT, Codes[1], d, <<"0","0","1">> \o hh \o mm, KEAS) :
        d \in Durations, hh \in HourDigits, mm \in MinuteDigits}

\* offsets of the operating system's timezone, minutes east of UTC
LocalOffsets == {-480, 0, 330}

AssetPool ==
    {File("EVENTS", "", RWT), location_file(Codes[1]), location_file(Codes[2]),
     location_file(<<>>), location_file(Codes[1] \o Codes[2]),
     and_file, until_file, hour_file(13), minute_file(30), ampm_file(13)}

AbsentChoices ==
    {{}} \cup {{f} : f \in AssetPool}
    \cup {{and_file, location_file(Codes[2])},
          {File("EVENTS", "", RWT), ampm_file(13)},
          {location_file(<<>>), location_file(Codes[1] \o Codes[2])}}

Invocation(z, tones, e, local, tz, gone, off) ==
    [zczc |-> z, tones |-> tones, entry |-> e, local |-> local, tz |-> tz,
     absent |-> gone, os_offset |-> off]

Entries == {"main", "splice"}

TzNames == DOMAIN tz_offsets \cup {None, "XYZ"}

\* grammar and assembly: every header shape, with and without tones, every
\* choice of missing files
PlanInvocations ==
    {Invocation(z, t, e, FALSE, tz, gone, 0) :
        z \in GrammarHeaders, t \in BOOLEAN, e \in Entries,
        tz \in {None, "EST"}, gone \in AbsentChoices}

\* end-time arithmetic: every issue time and duration under every policy
TimeInvocations ==
    {Invocation(z, FALSE, e, FALSE, tz, {}, 0) :
        z \in TimeHeaders, e \in Entries, tz \in TzNames}
    \cup
    {Invocation(z, t, e, TRUE, tz, {}, off) :
        z \in TimeHeaders, t \in BOOLEAN, e \in Entries, tz \in {None, "EST"},
        off \in LocalOffsets}

Invocations == PlanInvocations \cup TimeInvocations

\* ------------------------------------------------------------------------
\* One invocation, statement by statement
\* ------------------------------------------------------------------------
\* callers of generate_tones from other threads
NumCallers == 2

Callers == 1..NumCallers

\* calls each such caller makes
MaxCalls == 1

IdleCallers ==
    /\ tpc = [t \in Callers |-> "idle"]
    /\ targ = [t \in Callers |-> <<>>]
    /\ tlocal = [t \in Callers |-> NoCache]
    /\ tresult = [t \in Callers |-> NoResult]
    /\ calls = [t \in Callers |-> 0]
    /\ builds = 0

Init ==
    /\ \E inv \in Invocations :
          /\ entry = inv.entry
          /\ zczc_code = inv.zczc
          /\ use_local_time = inv.local
          /\ include_tones = inv.tones
          /\ tz_override = inv.tz
          /\ absent = inv.absent
          /\ local_offset = inv.os_offset
    /\ pc = entry
    /\ audio_segments = <<>>
    /\ zczc_split = NoSplit
    /\ location_code_list = <<>>
    /\ index = 0
    /\ times = NoTimes
    /\ error = NoError
    /\ exported = NotExported
    /\ cache = NoCache
    /\ IdleCallers

\* raise: the invocation ends with the exception e
Raise(e) ==
    /\ error' = e
    /\ pc' = "failed"

\* if os.path.exists(file): audio_segments.append(from_wav(file)) else: raise
Lookup(file, next) ==
    IF exists(file)
    THEN /\ audio_segments' = Append(audio_segments, Wav(file))
         /\ pc' = next
         /\ error' = error
    ELSE /\ Raise([kind |-> "MissingAsset", file |-> file])
         /\ audio_segments' = audio_segments

\* the segments that precede the spoken part when tones are included
LeaderSegments(payload) ==
    <<Silence(1000), Tones(payload), Silence(1000), AttentionSignal, Silence(1000)>>

NNNN == <<"N","N","N","N">>

TrailerSegments_NoFinalSilence == <<Silence(1000), Tones(NNNN)>>

\* the segments that follow the spoken part when tones are included
TrailerSegments == <<Silence(1000), Tones(NNNN), Silence(1000)>>

\* main(): parser.error() when both timezone options are given
Main ==
    /\ pc = "main"
    /\ IF use_local_time /\ tz_override # None
       THEN Raise(Error("ConflictingTimezoneOptions"))
       ELSE pc' = "splice" /\ error' = error
    /\ UNCHANGED <<entry, zczc_code, use_local_time, include_tones, tz_override,
                   absent, local_offset, audio_segments, zczc_split,
                   location_code_list, index, times, exported, cache>>
    /\ UNCHANGED tone_vars

\* splice(): the leading silence, header tones, attention signal
LeadingTones ==
    /\ pc = "splice"
    /\ IF include_tones
       THEN LET r == generate_tones(zczc_code, cache)
            IN  IF r.ok
                THEN /\ audio_segments' = LeaderSegments(zczc_code)
                     /\ cache' = r.cache
                     /\ pc' = "parse"
                     /\ error' = error
                ELSE /\ audio_segments' = <<Silence(1000)>>
                     /\ cache' = cache
                     /\ Raise(Error("InvalidInput"))
       ELSE /\ pc' = "parse"
            /\ UNCHANGED <<audio_segments, cache, error>>
    /\ UNCHANGED <<entry, zczc_code, use_local_time, include_tones, tz_override,
                   absent, local_offset, zczc_split, location_code_list, index,
                   times, exported>>
    /\ UNCHANGED tone_vars

\* zczc_split = split_zczc(zczc_code); location_codes.split('-')
Parse ==
    /\ pc = "parse"
    /\ LET r == split_zczc(zczc_code)
       IN  IF r.ok
           THEN /\ zczc_split' = r.groups
                /\ location_code_list' = split(r.groups.location_codes)
                /\ pc' = "event"
                /\ error' = error
           ELSE /\ Raise(Error("InvalidFormat"))
                /\ UNCHANGED <<zczc_split, location_code_list>>
    /\ UNCHANGED <<entry, zczc_code, use_local_time, include_tones, tz_override,
                   absent, local_offset, audio_segments, index, times, exported,
                   cache>>
    /\ UNCHANGED tone_vars

EventLookup ==
    /\ pc = "event"
    /\ Lookup(event_file(zczc_split), "loc")
    /\ index' = 1
    /\ UNCHANGED <<entry, zczc_code, use_local_time, include_tones, tz_override,
                   absent, local_offset, zczc_split, location_code_list, times,
                   exported, cache>>
    /\ UNCHANGED tone_vars

\* one iteration of the loop over location_code_list; index is 1-based, so
\* enumerate()'s index != 0 reads index # 1
LocationLookup ==
    /\ pc = "loc"
    /\ LET last == (index = Len(location_code_list)) /\ index # 1
           next == IF index = Len(location_code_list) THEN "until" ELSE "loc"
           file == location_file(location_code_list[index])
       IN  IF last /\ ~exists(and_file)
           THEN /\ Raise([kind |-> "MissingAsset", file |-> and_file])
                /\ audio_segments' = audio_segments
                /\ index' = index
           ELSE LET segs == IF last THEN Append(audio_segments, Wav(and_file))
                            ELSE audio_segments
                IN  IF exists(file)
                    THEN /\ audio_segments' = Append(segs, Wav(file))
                         /\ index' = index + 1
                         /\ pc' = next
                         /\ error' = error
                    ELSE /\ Raise([kind |-> "MissingAsset", file |-> file])
                         /\ audio_segments' = segs
                         /\ index' = index
    /\ UNCHANGED <<entry, zczc_code, use_local_time, include_tones, tz_override,
                   absent, local_offset, zczc_split, location_code_list, times,
                   exported, cache>>
    /\ UNCHANGED tone_vars

UntilLookup ==
    /\ pc = "until"
    /\ Lookup(until_file, "resolve")
    /\ UNCHANGED <<entry, zczc_code, use_local_time, include_tones, tz_override,
                   absent, local_offset, zczc_split, location_code_list, index,
                   times, exported, cache>>
    /\ UNCHANGED tone_vars

\* end_hour, end_minute under the selected policy, then the TIMES file names
ResolveTime ==
    /\ pc = "resolve"
    /\ LET r == ResolveEndTime(zczc_split, use_local_time, tz_override, local_offset)
       IN  IF r.error = "None"
           THEN /\ times' = [end_hour    |-> r.end_hour,
                             end_minute  |-> r.end_minute,
                             hour_file   |-> hour_file(r.end_hour),
                             minute_file |-> minute_file(r.end_minute),
                             ampm_file   |-> ampm_file(r.end_hour)]
                /\ pc' = "hour"
                /\ error' = error
           ELSE /\ Raise(Error(r.error))
                /\ times' = times
    /\ UNCHANGED <<entry, zczc_code, use_local_time, include_tones, tz_override,
                   absent, local_offset, audio_segments, zczc_split,
                   location_code_list, index, exported, cache>>
    /\ UNCHANGED tone_vars

HourLookup ==
    /\ pc = "hour"
    /\ Lookup(times.hour_file, "minute")
    /\ UNCHANGED <<entry, zczc_code, use_local_time, include_tones, tz_override,
                   absent, local_offset, zczc_split, location_code_list, index,
                   times, exported, cache>>
    /\ UNCHANGED tone_vars

MinuteLookup ==
    /\ pc = "minute"
    /\ Lookup(times.minute_file, "ampm")
    /\ UNCHANGED <<entry, zczc_code, use_local_time, include_tones, tz_override,
                   absent, local_offset, zczc_split, location_code_list, index,
                   times, exported, cache>>
    /\ UNCHANGED tone_vars

AmPmLookup ==
    /\ pc = "ampm"
    /\ Lookup(times.ampm_file, "trailer")
    /\ UNCHANGED <<entry, zczc_code, use_local_time, include_tones, tz_override,
                   absent, local_offset, zczc_split, location_code_list, index,
                   times, exported, cache>>
    /\ UNCHANGED tone_vars

\* the end-of-message tones
TrailingTones ==
    /\ pc = "trailer"
    /\ IF include_tones
       THEN LET r == generate_tones(NNNN, cache)
            IN  /\ audio_segments' = audio_segments \o TrailerSegments
                /\ cache' = r.cache
       ELSE UNCHANGED <<audio_segments, cache>>
    /\ pc' = "export"
    /\ UNCHANGED <<entry, zczc_code, use_local_time, include_tones, tz_override,
                   absent, local_offset, zczc_split, location_code_list, index,
                   times, error, exported>>
    /\ UNCHANGED tone_vars

\* concatenate the segments in order and export the result
Export ==
    /\ pc = "export"
    /\ IF audio_segments = <<>>
       THEN exported' = exported
       ELSE exported' = [done |-> TRUE, audio |-> audio_segments]
    /\ pc' = "done"
    /\ UNCHANGED <<entry, zczc_code, use_local_time, include_tones, tz_override,
                   absent, local_offset, audio_segments, zczc_split,
                   location_code_list, index, times, error, cache>>
    /\ UNCHANGED tone_vars

Next ==
    \/ Main
    \/ LeadingTones
    \/ Parse
    \/ EventLookup
    \/ LocationLookup
    \/ UntilLookup
    \/ ResolveTime
    \/ HourLookup
    \/ MinuteLookup
    \/ AmPmLookup
    \/ TrailingTones
    \/ Export

Spec == Init /\ [][Next]_vars

\* ------------------------------------------------------------------------
\* generate_tones called from several threads, statement by statement
\* ------------------------------------------------------------------------
TonePayloads ==
    {<<>>, <<" ">>, NNNN, <<" ">> \o NNNN \o <<"\n">>, <<"N", "U+00E9">>}

NoInvocation ==
    /\ entry = "none"
    /\ zczc_code = <<>>
    /\ use_local_time = FALSE
    /\ include_tones = FALSE
    /\ tz_override = None
    /\ absent = {}
    /\ local_offset = 0
    /\ pc = "none"
    /\ audio_segments = <<>>
    /\ zczc_split = NoSplit
    /\ location_code_list = <<>>
    /\ index = 0
    /\ times = NoTimes
    /\ error = NoError
    /\ exported = NotExported

InitTones ==
    /\ NoInvocation
    /\ cache = NoCache
    /\ IdleCallers

\* the call and the argument checks that precede the cache lookup
ToneCall(t) ==
    /\ tpc[t] = "idle"
    /\ calls[t] < MaxCalls
    /\ \E s \in TonePayloads :
          /\ targ' = [targ EXCEPT ![t] = s]
          /\ IF ValidTonePayload(s)
             THEN /\ tpc' = [tpc EXCEPT ![t] = "getattr"]
                  /\ tresult' = [tresult EXCEPT ![t] = NoResult]
             ELSE /\ tpc' = tpc
                  /\ tresult' = [tresult EXCEPT ![t] =
                                    [status |-> "InvalidInput", raw_audio |-> <<>>]]
    /\ calls' = [calls EXCEPT ![t] = calls[t] + 1]
    /\ UNCHANGED <<tlocal, builds, cache>>
    /\ UNCHANGED splice_vars

\* cache = getattr(generate_tones, "_segment_cache", None); if cache is None
ToneGetCache(t) ==
    /\ tpc[t] = "getattr"
    /\ tlocal' = [tlocal EXCEPT ![t] = cache]
    /\ tpc' = [tpc EXCEPT ![t] = IF cache = NoCache THEN "build" ELSE "render"]
    /\ UNCHANGED <<targ, tresult, calls, builds, cache>>
    /\ UNCHANGED splice_vars

\* the mark/space segments, the 256-entry byte_lookup, the cache dictionary
ToneBuild(t) ==
    /\ tpc[t] = "build"
    /\ tlocal' = [tlocal EXCEPT ![t] = BuildCache]
    /\ builds' = builds + 1
    /\ tpc' = [tpc EXCEPT ![t] = "publish"]
    /\ UNCHANGED <<targ, tresult, calls, cache>>
    /\ UNCHANGED splice_vars

\* generate_tones._segment_cache = cache
TonePublish(t) ==
    /\ tpc[t] = "publish"
    /\ cache' = tlocal[t]
    /\ tpc' = [tpc EXCEPT ![t] = "render"]
    /\ UNCHANGED <<targ, tlocal, tresult, calls, builds>>
    /\ UNCHANGED splice_vars

\* the three bursts rendered from the caller's cache
ToneRender(t) ==
    /\ tpc[t] = "render"
    /\ tresult' = [tresult EXCEPT ![t] =
                      [status |-> "ok", raw_audio |-> raw_audio(targ[t], tlocal[t])]]
    /\ tpc' = [tpc EXCEPT ![t] = "idle"]
    /\ UNCHANGED <<targ, tlocal, calls, builds, cache>>
    /\ UNCHANGED splice_vars

NextTones ==
    \/ \E t \in Callers : ToneCall(t)
    \/ \E t \in Callers : ToneGetCache(t)
    \/ \E t \in Callers : ToneBuild(t)
    \/ \E t \in Callers : TonePublish(t)
    \/ \E t \in Callers : ToneRender(t)

SpecTones == InitTones /\ [][NextTones]_vars

\* ------------------------------------------------------------------------
\* Properties
\* ------------------------------------------------------------------------

\* C1: once the header has been accepted, the location-code group has been
\* split into between 1 and 31 codes, each of exactly 6 digits, and every
\* LOC file looked up is named by one of those 6-digit codes.
C1_CodesAreSixDigits ==
    zczc_split # NoSplit =>
        /\ Len(location_code_list) \in 1..MaxLocationCodes
        /\ \A i \in 1..Len(location_code_list) :
              /\ Len(location_code_list[i]) = CodeWidth
              /\ AllIn(location_code_list[i], 1, CodeWidth, UnicodeDigit)
        /\ \A i \in 1..Len(audio_segments) :
              audio_segments[i].file.dir = "LOC" =>
                  Len(audio_segments[i].file.code) = CodeWidth

\* C2: parsing succeeds exactly when the trimmed header is non-empty and
\* matches the grammar, and fails with InvalidFormat otherwise.
C2_ParseAcceptsTrimmedGrammar ==
    LET trimmed == strip(zczc_code)
        grammatical == Len(trimmed) > 0 /\ MatchCore(trimmed)
    IN  /\ zczc_split # NoSplit => grammatical
        /\ error.kind = "InvalidFormat" => ~grammatical

C4_AndPlacement ==
    zczc_split # NoSplit =>
        LET codes == CountUnits(zczc_split.location_codes)
            n == Len(audio_segments)
            ands == {i \in 1..n : audio_segments[i].file = File("OTHER", "and", <<>>)}
            locs == {i \in 1..n : audio_segments[i].file.dir = "LOC"}
        IN  /\ codes = 1 => ands = {}
            /\ (codes >= 2 /\ pc \in {"export", "done"}) =>
                  /\ Cardinality(ands) = 1
                  /\ \A a \in ands : (a + 1) \in locs /\ \A l \in locs : l <= a + 1

C7_MissingAssetAborts ==
    LET n == Len(audio_segments)
        found == \A i \in 1..n :
                    audio_segments[i].src = "wav" => audio_segments[i].file \notin absent
        k == Len(location_code_list)
        locs == [i \in 1..(IF k >= 2 THEN k + 1 ELSE k) |->
                    IF k >= 2 /\ i = k THEN File("OTHER", "and", <<>>)
                    ELSE IF k >= 2 /\ i = k + 1 THEN File("LOC", "", location_code_list[k])
                    ELSE File("LOC", "", location_code_list[i])]
        end == ResolveEndTime(zczc_split, use_local_time, tz_override, local_offset)
        plan == <<File("EVENTS", "", zczc_split.event)>> \o locs
                \o <<File("OTHER", "until", <<>>), hour_file(end.end_hour),
                     minute_file(end.end_minute), ampm_file(end.end_hour)>>
        gone == {i \in 1..Len(plan) : plan[i] \in absent}
    IN  /\ error.kind = "MissingAsset" =>
              /\ pc = "failed"
              /\ error.file \in absent
              /\ found
              /\ ~exported.done
        /\ exported.done =>
              /\ pc = "done"
              /\ error = NoError
              /\ found
              /\ exported.audio = audio_segments
              /\ \E i \in 1..n : audio_segments[i] = Wav(times.ampm_file)
        /\ (pc \in {"done", "failed"} /\ zczc_split # NoSplit /\ end.error = "None"
            /\ gone # {}) =>
              /\ error.kind = "MissingAsset"
              /\ \E i \in gone : error.file = plan[i] /\ \A j \in gone : i <= j
              /\ ~exported.done

\* the last file of the plan is the absent one, tones included
C7_Witness ==
    /\ pc = "failed"
    /\ include_tones
    /\ error = [kind |-> "MissingAsset", file |-> times.ampm_file]
    /\ Len(audio_segments) > 5

\* C8: when both the local-time option and a timezone override are given, no
\* end time is ever resolved and nothing is exported, whichever way the
\* invocation enters.
C8_ConflictRejected ==
    (use_local_time /\ tz_override # None) =>
        /\ times = NoTimes
        /\ ~exported.done

\* C9: the byte-lookup table is built at most once, every caller renders
\* from a table of 256 entries, and a published table is never replaced by a
\* different one.
C9_TableBuiltOnce ==
    /\ builds <= 1
    /\ \A t \in Callers : tpc[t] = "render" => Len(tlocal[t].byte_lookup) = 256
    /\ cache # NoCache => cache = BuildCache

\* C10: for an accepted header and a name of the offset table, resolution
\* under that name does not fail and gives the UTC-policy end time with the
\* hour shifted by the table's offset modulo 24 and the minute unchanged.
C10_NamedOffsetShiftsUtc ==
    (~use_local_time /\ tz_override \in DOMAIN tz_offsets /\ zczc_split # NoSplit) =>
        LET ih == issue_hour(zczc_split)
            im == issue_minute(zczc_split)
            dh == duration_hours(zczc_split)
            dm == duration_minutes(zczc_split)
        IN  /\ error.kind # "OutOfRange"
            /\ times # NoTimes =>
                  /\ times.end_hour \in 0..23
                  /\ times.end_minute \in 0..59
                  /\ times.end_hour =
                        (utc_end_hour(ih, im, dh, dm) + tz_offsets[tz_override]) % 24
                  /\ times.end_minute = utc_end_minute(ih, im, dh, dm)

====
